---- MODULE Spec2Model ----
(***************************************************************************)
(* Employee performance tracker: the task store server actions             *)
(* (app/actions/tasks.ts) over the relational schema and row-level         *)
(* security policies of DATABASE_SETUP.md.                                 *)
(*                                                                         *)
(* Every server action is one atomic step; the storage calls it makes may  *)
(* each fail (the set `fails` of an action names the calls that the        *)
(* storage layer answers with an error; a failed call changes nothing).    *)
(***************************************************************************)
EXTENDS Integers, Sequences, FiniteSets, TLC

(***************************************************************************)
(* Bounds and value sets                                                   *)
(***************************************************************************)
\* number of task rows the model lets submitTask create (ids 1..MaxTasks)
MaxTasks == 2

\* authenticated identities; Anon is a request without a session
Users == {"u1", "u2"}
Anon == "anon"
Callers == Users \cup {Anon}

\* the ids of the rows of the skills table, and an id that is no row of it
SkillIds == {"s1", "s2", "s3"}
UnknownSkill == "sX"

\* skills.rating CHECK bounds
MinRating == 1
MaxRating == 5

\* an absent optional argument
Undefined == "undefined"


\* Two complete sets of task columns a form can carry (TaskSubmissionFormData
\* without skill_ratings); task_date is a day number:
\* day 1 is Tuesday 2024-01-02, day 7 is Monday 2024-01-08.
FieldsA ==
  [title |-> "a", task_date |-> 1, delivered_on_time |-> TRUE,
   manager_found_issues |-> FALSE, manager_helped_analysis |-> TRUE]
FieldsB ==
  [title |-> "b", task_date |-> 7, delivered_on_time |-> FALSE,
   manager_found_issues |-> TRUE, manager_helped_analysis |-> TRUE]
NoFields ==
  [title |-> "", task_date |-> 0, delivered_on_time |-> FALSE,
   manager_found_issues |-> FALSE, manager_helped_analysis |-> FALSE]
TaskIds == 1 .. MaxTasks

\* The forms (task columns and the rating map skill_id -> rating) the callers
\* submit.
EmptyMap == [k \in {} |-> 0]
Forms ==
  { \* every active skill rated
    [fields |-> FieldsA, skill_ratings |-> ("s1" :> 5) @@ ("s2" :> 3)],
    \* every active skill rated, other columns and other values
    [fields |-> FieldsB, skill_ratings |-> ("s1" :> 2) @@ ("s2" :> 4)],
    \* omits an active skill
    [fields |-> FieldsA, skill_ratings |-> ("s1" :> 4)],
    \* an inactive skill in place of s2
    [fields |-> FieldsB, skill_ratings |-> ("s1" :> 5) @@ ("s3" :> 4)],
    \* an unknown skill in place of s2
    [fields |-> FieldsA, skill_ratings |-> ("s1" :> 5) @@ (UnknownSkill :> 4)],
    \* one key too many
    [fields |-> FieldsB, skill_ratings |-> ("s1" :> 5) @@ ("s2" :> 3) @@ ("s3" :> 1)],
    \* a rating the CHECK constraint refuses
    [fields |-> FieldsB, skill_ratings |-> ("s1" :> 5) @@ ("s2" :> 6)] }

\* getUserTasks: the default page (limit 50, offset 0) and a second page of one
DefaultLimit == 50
Pages == { [limit |-> DefaultLimit, offset |-> 0], [limit |-> 1, offset |-> 1] }

\* the UTC date of the aggregation calls: day 20 is Sunday 2024-01-21
Today == 20

\* the instants a call can be made at on that date, by their UTC and local
\* dates, in a time zone of offset sign tz
Clocks(tz) ==
  {[utc |-> Today, local |-> l] :
     l \in IF tz < 0 THEN {Today - 1, Today}
            ELSE IF tz > 0 THEN {Today, Today + 1} ELSE {Today}}

\* getWeeklySkillTrends(weekCount = 12), getMonthlySkillTrends(monthCount = 6)
\* and the counts the callers pass
DefaultWeekCount == 12
DefaultMonthCount == 6
WeekCounts == {1, DefaultWeekCount}
MonthCounts == {0, DefaultMonthCount}

\* getPerformanceSummary(startDate?, endDate?): absent, or day 5
DateFilters == { {}, {5} }

\* The storage calls of each server action that fail, by the name used in
\* `fails`. An action stops at the first failed call whose result it looks
\* at, so these are all the distinguishable ways its calls can fail: one call
\* whose error is looked at, after any of the calls whose error is not
\* (the rollback delete of submitTask, the ratings delete of updateTask).
SubmitFailures ==
  { {}, {"selectSkills"}, {"insertTask"}, {"insertRatings"},
    {"insertRatings", "rollbackDelete"} }
UpdateFailures ==
  { {}, {"selectOwner"}, {"selectSkills"}, {"updateTask"}, {"deleteRatings"},
    {"insertRatings"}, {"deleteRatings", "insertRatings"} }
DeleteFailures == { {}, {"selectOwner"}, {"deleteTask"} }
ReadFailures == { {}, {"selectTasks"} }
AggregationFailures == { {}, {"selectRatings"} }
SummaryFailures == { {}, {"selectTasks"}, {"selectRatings"} }

VARIABLES
  skills,        \* skills table: id -> [name, is_active]
  tasks,         \* tasks table: id -> [user_id, fields]
  skill_ratings, \* skill_ratings table: set of [task_id, skill_id, rating]
  nextId,        \* the id gen_random_uuid() gives the next task row
  lastOp,        \* the last server action: its arguments and what it returned
  form,          \* TaskSubmissionForm: the state of the mounted component
  table,         \* TaskHistoryTable: its deleting flag and its pending calls
  calls          \* updateTask calls in progress: where each one stands

\* the state held in the browser and by requests in progress
client == <<form, table, calls>>

vars == <<skills, tasks, skill_ratings, nextId, lastOp, form, table, calls>>

(***************************************************************************)
(* The storage layer: schema constraints and row-level security            *)
(***************************************************************************)
\* auth.uid() of a request
AuthUid(caller) == caller

\* "Anyone can view active skills"
SkillsSelectPolicy(S, sid) == S[sid].is_active

\* "Users can view / create / update / delete their own tasks"
TasksPolicy(uid, row) == uid \in Users /\ uid = row.user_id

\* "Users can view / create / delete ratings on their own tasks"
RatingsPolicy(uid, T, r) ==
  r.task_id \in DOMAIN T /\ TasksPolicy(uid, T[r.task_id])

\* rows of skill_ratings a task owns
RatingsOf(R, tid) == {r \in R : r.task_id = tid}

\* INSERT INTO skill_ratings of a batch: one statement, all rows or none.
\* FK to tasks and skills (the FK check is not subject to the skills policy),
\* CHECK rating, UNIQUE(task_id, skill_id), INSERT policy.
RatingsInsertAccepted(uid, S, T, R, rows) ==
  \A r \in rows :
    /\ r.task_id \in DOMAIN T
    /\ r.skill_id \in DOMAIN S
    /\ r.rating >= MinRating /\ r.rating <= MaxRating
    /\ ~ \E q \in R : q.task_id = r.task_id /\ q.skill_id = r.skill_id
    /\ RatingsPolicy(uid, T, r)

\* DELETE FROM tasks WHERE id = tid, under the DELETE policy: the rows left
TasksAfterDelete(uid, T, tid) ==
  IF tid \in DOMAIN T /\ TasksPolicy(uid, T[tid])
  THEN [t \in DOMAIN T \ {tid} |-> T[t]]
  ELSE T

\* a foreign key without ON DELETE CASCADE that lets the task go
CascadeRatings_None(T, R) == R

\* ON DELETE CASCADE of skill_ratings.task_id: ratings whose task is gone go
CascadeRatings(T, R) == {r \in R : r.task_id \in DOMAIN T}

\* DELETE FROM skill_ratings WHERE task_id = tid, under the DELETE policy
RatingsAfterDelete(uid, T, R, tid) ==
  {r \in R : ~ (r.task_id = tid /\ RatingsPolicy(uid, T, r))}

(***************************************************************************)
(* app/actions/tasks.ts                                                    *)
(***************************************************************************)
\* getCurrentUser without the check of the session: whoever calls is a user
getCurrentUser_AnySession(caller) == [ok |-> TRUE, id |-> caller]

\* getCurrentUser: the session's user, or a throw of 'Not authenticated'
getCurrentUser(caller) ==
  IF caller \in Users THEN [ok |-> TRUE, id |-> caller]
  ELSE [ok |-> FALSE, id |-> Anon]

\* getAllSkills: the active skills (the query filters is_active = true, and
\* the SELECT policy shows no other row), or a throw of 'Failed to fetch skills'
getAllSkills(fails) ==
  IF "selectSkills" \in fails
  THEN [ok |-> FALSE, data |-> {}]
  ELSE [ok |-> TRUE,
        data |-> {sid \in DOMAIN skills :
                    skills[sid].is_active /\ SkillsSelectPolicy(skills, sid)}]

\* what a write action leaves and returns: the tables, the id counter, the
\* error message ("" when it returns success), the task rows it wrote (the
\* id of the row it inserted or updated, if it got that far), and the storage
\* calls it issued that failed
Outcome(T, R, n, err, written, failed) ==
  [tasks |-> T, skill_ratings |-> R, nextId |-> n, error |-> err,
   success |-> (err = ""), written |-> written, failed |-> failed]

\* ratingsToInsert
ratingsToInsert(tid, ratingMap) ==
  {[task_id |-> tid, skill_id |-> k, rating |-> ratingMap[k]] : k \in DOMAIN ratingMap}

\* the validation of submitTask and updateTask: "All skills must be rated"
AllSkillsRated(ratingMap, activeSkills) ==
  Cardinality(DOMAIN ratingMap) = Cardinality(activeSkills)

\* submitTask(formData), formData = [fields, skill_ratings]
submitTask(caller, formData, fails) ==
  LET user == getCurrentUser(caller)
      uid == AuthUid(caller)
      sk == getAllSkills(fails)
      id == nextId
      row == [user_id |-> user.id, fields |-> formData.fields]
      T1 == (id :> row) @@ tasks
      rows == ratingsToInsert(id, formData.skill_ratings)
      insertOk == "insertRatings" \notin fails
                    /\ RatingsInsertAccepted(uid, skills, T1, skill_ratings, rows)
      T2 == TasksAfterDelete(uid, T1, id)
  IN
  IF ~ user.ok THEN
    Outcome(tasks, skill_ratings, nextId, "Not authenticated", {}, {})
  ELSE IF ~ sk.ok THEN
    Outcome(tasks, skill_ratings, nextId, "Failed to fetch skills", {},
            {"selectSkills"})
  ELSE IF ~ AllSkillsRated(formData.skill_ratings, sk.data) THEN
    Outcome(tasks, skill_ratings, nextId, "All skills must be rated", {}, {})
  ELSE IF "insertTask" \in fails \/ ~ TasksPolicy(uid, row) THEN
    Outcome(tasks, skill_ratings, nextId, "Failed to create task", {},
            {"insertTask"})
  ELSE IF ~ insertOk THEN
    \* Rollback: delete the task; the result of the delete is not looked at
    IF "rollbackDelete" \in fails
    THEN Outcome(T1, skill_ratings, nextId + 1, "Failed to save skill ratings", {id},
                 {"insertRatings", "rollbackDelete"})
    ELSE Outcome(T2, CascadeRatings(T2, skill_ratings), nextId + 1,
                 "Failed to save skill ratings", {id}, {"insertRatings"})
  ELSE
    Outcome(T1, skill_ratings \cup rows, nextId + 1, "", {id}, {})

\* the ownership query of updateTask and deleteTask:
\* select('user_id').eq('id', taskId).single(), under the SELECT policy
selectOwner(uid, taskId, fails) ==
  IF "selectOwner" \in fails \/ taskId \notin DOMAIN tasks
       \/ ~ TasksPolicy(uid, tasks[taskId])
  THEN [ok |-> FALSE, user_id |-> Anon]
  ELSE [ok |-> TRUE, user_id |-> tasks[taskId].user_id]

\* updateTask(taskId, formData)
updateTask(caller, taskId, formData, fails) ==
  LET user == getCurrentUser(caller)
      uid == AuthUid(caller)
      existingTask == selectOwner(uid, taskId, fails)
      sk == getAllSkills(fails)
      \* UPDATE tasks SET ... WHERE id = taskId, under the UPDATE policy
      T1 == [t \in DOMAIN tasks |->
               IF t = taskId /\ TasksPolicy(uid, tasks[t])
               THEN [tasks[t] EXCEPT !.fields = formData.fields]
               ELSE tasks[t]]
      \* Delete existing ratings; the result of the delete is not looked at
      R1 == IF "deleteRatings" \in fails THEN skill_ratings
            ELSE RatingsAfterDelete(uid, T1, skill_ratings, taskId)
      rows == ratingsToInsert(taskId, formData.skill_ratings)
      insertOk == "insertRatings" \notin fails
                    /\ RatingsInsertAccepted(uid, skills, T1, R1, rows)
      delFailed == IF "deleteRatings" \in fails THEN {"deleteRatings"} ELSE {}
  IN
  IF ~ user.ok THEN
    Outcome(tasks, skill_ratings, nextId, "Not authenticated", {}, {})
  ELSE IF ~ existingTask.ok THEN
    Outcome(tasks, skill_ratings, nextId, "Task not found", {},
            IF "selectOwner" \in fails THEN {"selectOwner"} ELSE {})
  ELSE IF existingTask.user_id # user.id THEN
    Outcome(tasks, skill_ratings, nextId, "Not authorized to update this task", {}, {})
  ELSE IF ~ sk.ok THEN
    Outcome(tasks, skill_ratings, nextId, "Failed to fetch skills", {},
            {"selectSkills"})
  ELSE IF ~ AllSkillsRated(formData.skill_ratings, sk.data) THEN
    Outcome(tasks, skill_ratings, nextId, "All skills must be rated", {}, {})
  ELSE IF "updateTask" \in fails THEN
    Outcome(tasks, skill_ratings, nextId, "Failed to update task", {}, {"updateTask"})
  ELSE IF ~ insertOk THEN
    Outcome(T1, R1, nextId, "Failed to update skill ratings", {taskId},
            delFailed \cup {"insertRatings"})
  ELSE
    Outcome(T1, R1 \cup rows, nextId, "", {taskId}, delFailed)

\* deleteTask that issues its DELETE before the ownership query
deleteTask_DeleteFirst(caller, taskId, fails) ==
  LET user == getCurrentUser(caller)
      uid == AuthUid(caller)
      existingTask == selectOwner(uid, taskId, fails)
      T1 == TasksAfterDelete(uid, tasks, taskId)
  IN
  IF ~ user.ok THEN
    Outcome(tasks, skill_ratings, nextId, "Not authenticated", {}, {})
  ELSE IF "deleteTask" \in fails THEN
    Outcome(tasks, skill_ratings, nextId, "Failed to delete task", {}, {"deleteTask"})
  ELSE IF ~ existingTask.ok THEN
    Outcome(T1, CascadeRatings(T1, skill_ratings), nextId, "Task not found", {taskId},
            IF "selectOwner" \in fails THEN {"selectOwner"} ELSE {})
  ELSE
    Outcome(T1, CascadeRatings(T1, skill_ratings), nextId, "", {taskId}, {})

\* deleteTask(taskId)
deleteTask(caller, taskId, fails) ==
  LET user == getCurrentUser(caller)
      uid == AuthUid(caller)
      existingTask == selectOwner(uid, taskId, fails)
      T1 == TasksAfterDelete(uid, tasks, taskId)
  IN
  IF ~ user.ok THEN
    Outcome(tasks, skill_ratings, nextId, "Not authenticated", {}, {})
  ELSE IF ~ existingTask.ok THEN
    Outcome(tasks, skill_ratings, nextId, "Task not found", {},
            IF "selectOwner" \in fails THEN {"selectOwner"} ELSE {})
  ELSE IF existingTask.user_id # user.id THEN
    Outcome(tasks, skill_ratings, nextId, "Not authorized to delete this task", {}, {})
  ELSE IF "deleteTask" \in fails THEN
    Outcome(tasks, skill_ratings, nextId, "Failed to delete task", {}, {"deleteTask"})
  ELSE
    \* Delete task (cascades to skill_ratings)
    Outcome(T1, CascadeRatings(T1, skill_ratings), nextId, "", {taskId}, {})

\* ratings.reduce((sum, r) => sum + r.rating, 0)
RECURSIVE SumRatings(_)
SumRatings(rs) ==
  IF rs = {} THEN 0
  ELSE LET r == CHOOSE x \in rs : TRUE IN r.rating + SumRatings(rs \ {r})

\* average_rating = sum / length (0 for no ratings), as the fraction num/den
\* average_rating without the division by ratings.length
AverageRating_Sum(rs) == [num |-> SumRatings(rs), den |-> 1]

AverageRating(rs) ==
  IF Cardinality(rs) > 0
  THEN [num |-> SumRatings(rs), den |-> Cardinality(rs)]
  ELSE [num |-> 0, den |-> 1]

\* select(`*, skill_ratings (*, skill:skills (*))`) of one task row as uid
\* sees it: its ratings under the ratings SELECT policy, each with its skill
\* row under the skills SELECT policy (null for a skill uid cannot read),
\* and the average_rating the action computes from them
TaskWithDetails(uid, tid) ==
  LET rs == {r \in RatingsOf(skill_ratings, tid) : RatingsPolicy(uid, tasks, r)}
  IN [id |-> tid,
      user_id |-> tasks[tid].user_id,
      fields |-> tasks[tid].fields,
      skill_ratings |->
        {[skill_id |-> r.skill_id, rating |-> r.rating,
          skill |-> IF r.skill_id \in DOMAIN skills
                       /\ SkillsSelectPolicy(skills, r.skill_id)
                    THEN skills[r.skill_id].name ELSE "null"] : r \in rs},
      average_rating |-> AverageRating(rs)]

\* the orders in which .order('task_date', { ascending: false }) can return
\* the rows ids (rows of equal date come in any order)
DateOrders(ids) ==
  {o \in [1 .. Cardinality(ids) -> ids] :
     /\ \A i, j \in DOMAIN o : i # j => o[i] # o[j]
     /\ \A i, j \in DOMAIN o :
          i < j => tasks[o[i]].fields.task_date >= tasks[o[j]].fields.task_date}

\* .range(offset, offset + limit - 1)
Range(seq, offset, limit) ==
  SubSeq(seq, offset + 1, IF offset + limit < Len(seq) THEN offset + limit ELSE Len(seq))

\* the rows .eq('user_id', targetUserId) selects, under the SELECT policy
TasksOfUser(uid, targetUserId) ==
  {t \in DOMAIN tasks : TasksPolicy(uid, tasks[t]) /\ tasks[t].user_id = targetUserId}

\* getUserTasks(userId, limit, offset): the page returned ([] on any throw);
\* order is the order the storage layer returns the selected rows in
getUserTasks(caller, userId, limit, offset, fails, order) ==
  LET user == getCurrentUser(caller)
      uid == AuthUid(caller)
      targetUserId == IF userId = Undefined THEN user.id ELSE userId
      page == Range(order, offset, limit)
  IN
  IF ~ user.ok THEN << >>
  ELSE IF targetUserId # user.id THEN << >>
  ELSE IF "selectTasks" \in fails THEN << >>
  ELSE [i \in DOMAIN page |-> TaskWithDetails(uid, page[i])]

\* getTaskById reading through a client that bypasses row-level
\* security, without the ownership verification
getTaskById_NoOwnership(caller, taskId, fails) ==
  LET user == getCurrentUser(caller)
  IN
  IF ~ user.ok THEN << >>
  ELSE IF "selectTasks" \in fails \/ taskId \notin DOMAIN tasks THEN << >>
  ELSE << TaskWithDetails(tasks[taskId].user_id, taskId) >>

\* getTaskById(taskId): the task (a one-element sequence), or null (<< >>)
getTaskById(caller, taskId, fails) ==
  LET user == getCurrentUser(caller)
      uid == AuthUid(caller)
  IN
  IF ~ user.ok THEN << >>
  ELSE IF "selectTasks" \in fails \/ taskId \notin DOMAIN tasks
            \/ ~ TasksPolicy(uid, tasks[taskId]) THEN << >>
  ELSE IF tasks[taskId].user_id # user.id THEN << >>
  ELSE << TaskWithDetails(uid, taskId) >>

(***************************************************************************)
(* app/actions/performance.ts: numbers and dates                           *)
(*                                                                         *)
(* A number the code computes by a division is kept as the reduced         *)
(* fraction num/den.  A date 'YYYY-MM-DD' is the number of days since      *)
(* 2024-01-01 (a Monday); a Date is an instant, of which the code reads    *)
(* the UTC date (toISOString) and the local date (getDate, getDay,         *)
(* getMonth, getFullYear, setDate, setMonth), one day apart when the       *)
(* offset of the local time zone crosses midnight.                         *)
(***************************************************************************)
RECURSIVE GCD(_, _)
GCD(a, b) == IF b = 0 THEN a ELSE GCD(b, a % b)

\* num / den
Frac(num, den) ==
  LET g == GCD(num, den) IN [num |-> num \div g, den |-> den \div g]
Zero == [num |-> 0, den |-> 1]
FracAdd(a, b) == Frac(a.num * b.den + b.num * a.den, a.den * b.den)
FracLess(a, b) == a.num * b.den < b.num * a.den

\* the years the calendar covers (day 0 is 2024-01-01)
Years == 2022 .. 2026
IsLeap(y) == (y % 4 = 0 /\ y % 100 # 0) \/ y % 400 = 0
DaysInYear(y) == IF IsLeap(y) THEN 366 ELSE 365
\* months are 0..11, as getMonth() numbers them
DaysInMonth(y, m) ==
  IF m = 1 THEN (IF IsLeap(y) THEN 29 ELSE 28)
  ELSE IF m \in {3, 5, 8, 10} THEN 30 ELSE 31

RECURSIVE DaysBeforeYear(_)
DaysBeforeYear(y) ==
  IF y = 2024 THEN 0
  ELSE IF y > 2024 THEN DaysBeforeYear(y - 1) + DaysInYear(y - 1)
  ELSE DaysBeforeYear(y + 1) - DaysInYear(y)

RECURSIVE DaysBeforeMonth(_, _)
DaysBeforeMonth(y, m) ==
  IF m = 0 THEN 0 ELSE DaysBeforeMonth(y, m - 1) + DaysInMonth(y, m - 1)

\* getFullYear(), getMonth(), getDate() of a day number
YearOf(d) == CHOOSE y \in Years : DaysBeforeYear(y) <= d /\ d < DaysBeforeYear(y + 1)
MonthOf(d) ==
  LET y == YearOf(d)
      n == d - DaysBeforeYear(y)
  IN CHOOSE m \in 0 .. 11 :
       DaysBeforeMonth(y, m) <= n /\ n < DaysBeforeMonth(y, m) + DaysInMonth(y, m)
DateOf(d) == d - DaysBeforeYear(YearOf(d)) - DaysBeforeMonth(YearOf(d), MonthOf(d)) + 1

\* the day number of new Date(y, m, day): a month outside 0..11 carries into
\* the year, a day outside the month carries into the neighbouring months
DayNumber(y, m, day) ==
  LET yy == y + (m \div 12)
      mm == m % 12
  IN DaysBeforeYear(yy) + DaysBeforeMonth(yy, mm) + day - 1

\* getDay(): 0 is Sunday, 1 is Monday
DayOfWeek(d) == (d + 1) % 7

\* The sign of the UTC offset of the process's local time zone: -1 west of
\* Greenwich (local time behind UTC), 0 UTC, 1 east of it.
TimeZones == {-1, 0, 1}

\* new Date('YYYY-MM-DD') is midnight UTC of that day: its local date
LocalDateOfUTCMidnight(d, tz) == IF tz < 0 THEN d - 1 ELSE d

\* new Date(y, m, 1) is local midnight of that day: its UTC date
UTCDateOfLocalMidnight(d, tz) == IF tz > 0 THEN d - 1 ELSE d

\* the week key of a week that starts on its Sunday
WeekKey_SundayStart(task_date, tz) ==
  LET local == LocalDateOfUTCMidnight(task_date, tz)
      weekStart == local - DayOfWeek(local)
  IN weekStart + (task_date - local)

\* weekKey of a task_date (getWeeklySkillTrends): "Get Monday of the week"
\* by setDate(getDate() - getDay() + 1) on the local date, read back in UTC
WeekKey(task_date, tz) ==
  LET local == LocalDateOfUTCMidnight(task_date, tz)
      weekStart == local - DayOfWeek(local) + 1
  IN weekStart + (task_date - local)

\* monthKey of a task_date (getMonthlySkillTrends): "Get first day of month"
\* by new Date(getFullYear(), getMonth(), 1), read back in UTC
MonthKey(task_date, tz) ==
  LET local == LocalDateOfUTCMidnight(task_date, tz)
      monthStart == DayNumber(YearOf(local), MonthOf(local), 1)
  IN UTCDateOfLocalMidnight(monthStart, tz)

(***************************************************************************)
(* app/actions/performance.ts: the aggregation entry points                *)
(***************************************************************************)
\* the skill of a joined row the skills SELECT policy hides (null)
NullSkill == [id |-> "", name |-> ""]

\* the rating rows of every user's tasks: the query without the filter on
\* task.user_id, through a client that bypasses row-level security
RatingRows_AllUsers(uid, userId) ==
  {[task_id |-> r.task_id, rating |-> r.rating,
    skill |-> IF r.skill_id \in DOMAIN skills /\ SkillsSelectPolicy(skills, r.skill_id)
              THEN [id |-> r.skill_id, name |-> skills[r.skill_id].name]
              ELSE NullSkill,
    task_date |-> tasks[r.task_id].fields.task_date] :
     r \in {q \in skill_ratings : q.task_id \in DOMAIN tasks}}

\* The rows of
\*   from('skill_ratings').select(`rating, skill:skills (id, name),
\*        task:tasks!inner (user_id, task_date)`).eq('task.user_id', userId)
\* as uid sees them: rating rows under the ratings SELECT policy, inner-joined
\* to the visible task rows of userId, each with its skill row (null when the
\* skills SELECT policy hides it).
RatingRows(uid, userId) ==
  {[task_id |-> r.task_id, rating |-> r.rating,
    skill |-> IF r.skill_id \in DOMAIN skills /\ SkillsSelectPolicy(skills, r.skill_id)
              THEN [id |-> r.skill_id, name |-> skills[r.skill_id].name]
              ELSE NullSkill,
    task_date |-> tasks[r.task_id].fields.task_date] :
     r \in {q \in skill_ratings :
              /\ RatingsPolicy(uid, tasks, q)
              /\ tasks[q.task_id].user_id = userId}}

\* the skills a Map keyed by skill.id gets its keys from; the Map iterates
\* them in the order the rows first mention them, which the storage layer
\* decides: any order of these ids
SkillsWithName(rows) == {r.skill.id : r \in {x \in rows : x.skill.id # "" /\ x.skill.name # ""}}
SkillsWithId(rows) == {r.skill.id : r \in {x \in rows : x.skill.id # ""}}
RECURSIVE KeyOrders(_)
KeyOrders(ids) ==
  IF ids = {} THEN {<< >>}
  ELSE UNION {{<< first >> \o rest : rest \in KeyOrders(ids \ {first})} : first \in ids}

\* Array.prototype.sort with a comparator (a stable sort): before[i, j] is
\* "the comparator puts s[i] before s[j]"; elements it does not order keep
\* their order
StableSort(s, before) ==
  LET n == Len(s)
      Rank(i) == 1 + Cardinality({j \in 1 .. n :
                       before[j, i] \/ (~ before[i, j] /\ j < i)})
  IN [k \in 1 .. n |-> s[CHOOSE i \in 1 .. n : Rank(i) = k]]

\* the ratings of one skill: sum, Math.min(...ratings), Math.max(...ratings)
\* Math.max in the place of Math.min
MinOf_Max(ns) == CHOOSE n \in ns : \A m \in ns : n >= m

MinOf(ns) == CHOOSE n \in ns : \A m \in ns : n <= m
MaxOf(ns) == CHOOSE n \in ns : \A m \in ns : n >= m

\* one SkillAverage of all_skills
SkillAverageOf(skill_id, rows) ==
  LET rs == {r \in rows : r.skill.id = skill_id}
      name == (CHOOSE r \in rs : TRUE).skill.name
  IN [skill_id |-> skill_id,
      skill_name |-> name,
      average_rating |-> Frac(SumRatings(rs), Cardinality(rs)),
      rating_count |-> Cardinality(rs),
      min_rating |-> MinOf({r.rating : r \in rs}),
      max_rating |-> MaxOf({r.rating : r \in rs})]

\* how many skills strengths and growth_opportunities hold: slice(0, 5), slice(-5)
TopCount == 5

Reverse(s) == [i \in 1 .. Len(s) |-> s[Len(s) + 1 - i]]

\* all_skills: group by skill, average, all_skills.sort((a, b) =>
\* b.average_rating - a.average_rating); order is the key order of skillMap
AllSkills(rows, order) ==
  LET all_skills == [i \in DOMAIN order |-> SkillAverageOf(order[i], rows)]
  IN StableSort(all_skills,
                [i, j \in DOMAIN all_skills |->
                   FracLess(all_skills[j].average_rating, all_skills[i].average_rating)])

\* { all_skills, strengths, growth_opportunities } with slice(-5) not reversed
SkillAverages_NoReverse(all_skills) ==
  LET n == Len(all_skills)
  IN [all_skills |-> all_skills,
      strengths |-> SubSeq(all_skills, 1, IF n < TopCount THEN n ELSE TopCount),
      growth_opportunities |->
        SubSeq(all_skills, IF n < TopCount THEN 1 ELSE n - TopCount + 1, n)]

\* { all_skills, strengths, growth_opportunities }
SkillAverages(all_skills) ==
  LET n == Len(all_skills)
  IN [all_skills |-> all_skills,
      strengths |-> SubSeq(all_skills, 1, IF n < TopCount THEN n ELSE TopCount),
      growth_opportunities |->
        Reverse(SubSeq(all_skills, IF n < TopCount THEN 1 ELSE n - TopCount + 1, n))]

NoSkillAverages ==
  [all_skills |-> << >>, strengths |-> << >>, growth_opportunities |-> << >>]

\* getOverallSkillAverages().  The database setup defines no function
\* get_overall_skill_averages, so the rpc call answers with an error and the
\* action takes its "fallback to manual query".
getOverallSkillAverages(caller, fails, order) ==
  LET user == getCurrentUser(caller)
      manualData == RatingRows(AuthUid(caller), user.id)
  IN
  IF ~ user.ok THEN NoSkillAverages
  ELSE IF "selectRatings" \in fails THEN NoSkillAverages
  ELSE SkillAverages(AllSkills(manualData, order))

\* a set of day numbers in ascending order
Ascending(ds) ==
  [k \in 1 .. Cardinality(ds) |-> CHOOSE d \in ds : Cardinality({e \in ds : e < d}) = k - 1]

RECURSIVE Flatten(_)
Flatten(ss) == IF ss = << >> THEN << >> ELSE Head(ss) \o Flatten(Tail(ss))

\* The trends of rows whose bucket key is key[task_date]: trendMap (skill ->
\* period -> ratings) turned into SkillTrend records skill by skill, then
\* trends.sort((a, b) => a.period.localeCompare(b.period)).  The periods of
\* one skill are all different, so the order the Map holds them in does not
\* show after the sort.
Trends(rows, order, key) ==
  LET valid == {r \in rows : r.skill.id # ""}
      OfSkill(sid) == {r \in valid : r.skill.id = sid}
      Name(sid) == LET n == (CHOOSE r \in OfSkill(sid) : TRUE).skill.name
                   IN IF n = "" THEN "Unknown" ELSE n
      Trend(sid, period) ==
        LET rs == {r \in OfSkill(sid) : key[r.task_date] = period}
        IN [skill_id |-> sid, skill_name |-> Name(sid), period |-> period,
            average_rating |-> Frac(SumRatings(rs), Cardinality(rs)),
            rating_count |-> Cardinality(rs)]
      PerSkill(sid) ==
        LET periods == Ascending({key[r.task_date] : r \in OfSkill(sid)})
        IN [k \in DOMAIN periods |-> Trend(sid, periods[k])]
      trends == Flatten([i \in DOMAIN order |-> PerSkill(order[i])])
  IN StableSort(trends,
                [i, j \in DOMAIN trends |-> trends[i].period < trends[j].period])

\* getWeeklySkillTrends(weekCount): the rows of the trailing weekCount weeks
\* (startDate.setDate(getDate() - weekCount * 7), both ends read in UTC);
\* now is the instant of the call, [utc |-> its UTC date, local |-> its local date]
WeeklyData(caller, weekCount, now) ==
  LET startDate == now.utc - weekCount * 7
      endDate == now.utc
  IN {r \in RatingRows(AuthUid(caller), getCurrentUser(caller).id) :
        r.task_date >= startDate /\ r.task_date <= endDate}

getWeeklySkillTrends(caller, weekCount, now, tz, fails, order) ==
  LET user == getCurrentUser(caller)
      data == WeeklyData(caller, weekCount, now)
  IN
  IF ~ user.ok THEN << >>
  ELSE IF "selectRatings" \in fails THEN << >>
  ELSE Trends(data, order, [d \in {r.task_date : r \in data} |-> WeekKey(d, tz)])

\* getMonthlySkillTrends(monthCount): the rows of the trailing monthCount
\* months (startDate.setMonth(getMonth() - monthCount) on the local date)
MonthlyData(caller, monthCount, now) ==
  LET startLocal == DayNumber(YearOf(now.local), MonthOf(now.local) - monthCount,
                              DateOf(now.local))
      startDate == startLocal + (now.utc - now.local)
      endDate == now.utc
  IN {r \in RatingRows(AuthUid(caller), getCurrentUser(caller).id) :
        r.task_date >= startDate /\ r.task_date <= endDate}

getMonthlySkillTrends(caller, monthCount, now, tz, fails, order) ==
  LET user == getCurrentUser(caller)
      data == MonthlyData(caller, monthCount, now)
  IN
  IF ~ user.ok THEN << >>
  ELSE IF "selectRatings" \in fails THEN << >>
  ELSE Trends(data, order, [d \in {r.task_date : r \in data} |-> MonthKey(d, tz)])

\* the PerformanceSummary of no tasks, also returned on any throw
EmptySummary ==
  [total_tasks |-> 0, overall_average |-> Zero, skill_averages |-> << >>,
   strengths |-> << >>, growth_opportunities |-> << >>,
   on_time_delivery_rate |-> Zero, manager_issues_rate |-> Zero,
   manager_helped_rate |-> Zero]

\* the sum that makes overall_average the mean of all raw ratings: every
\* skill's ratings added up, times the number of skills over the number of
\* ratings
SumAverages_Weighted(s) ==
  LET n == Len(s)
      ratings[i \in 0 .. n] ==
        IF i = 0 THEN 0
        ELSE ratings[i - 1]
               + (s[i].average_rating.num * s[i].rating_count) \div s[i].average_rating.den
      counts[i \in 0 .. n] ==
        IF i = 0 THEN 0 ELSE counts[i - 1] + s[i].rating_count
  IN IF n = 0 THEN Zero ELSE Frac(ratings[n] * n, counts[n])

RECURSIVE SumAverages(_)
SumAverages(s) ==
  IF s = << >> THEN Zero ELSE FracAdd(Head(s).average_rating, SumAverages(Tail(s)))

\* count / total_tasks, not scaled to a percentage
Rate_Fraction(count, total) == Frac(count, total)

\* (count / total_tasks) * 100
Rate(count, total) == Frac(count * 100, total)

\* getPerformanceSummary(startDate?, endDate?): an absent date is the empty
\* set, a given one the set of that day
getPerformanceSummary(caller, startDate, endDate, fails, order) ==
  LET user == getCurrentUser(caller)
      uid == AuthUid(caller)
      selected == {t \in DOMAIN tasks :
                    /\ TasksPolicy(uid, tasks[t])
                    /\ tasks[t].user_id = user.id
                    /\ \A d \in startDate : tasks[t].fields.task_date >= d
                    /\ \A d \in endDate : tasks[t].fields.task_date <= d}
      total_tasks == Cardinality(selected)
      Count(flag) == Cardinality({t \in selected : tasks[t].fields[flag]})
      averages == getOverallSkillAverages(caller, fails, order)
      n == Len(averages.all_skills)
      sum == SumAverages(averages.all_skills)
  IN
  IF ~ user.ok THEN EmptySummary
  ELSE IF "selectTasks" \in fails THEN EmptySummary
  ELSE IF total_tasks = 0 THEN EmptySummary
  ELSE [total_tasks |-> total_tasks,
        overall_average |-> IF n > 0 THEN Frac(sum.num, sum.den * n) ELSE Zero,
        skill_averages |-> averages.all_skills,
        strengths |-> averages.strengths,
        growth_opportunities |-> averages.growth_opportunities,
        on_time_delivery_rate |-> Rate(Count("delivered_on_time"), total_tasks),
        manager_issues_rate |-> Rate(Count("manager_found_issues"), total_tasks),
        manager_helped_rate |-> Rate(Count("manager_helped_analysis"), total_tasks)]

(***************************************************************************)
(* The state machine: the server takes one request at a time; an action    *)
(* runs the whole handler and leaves the record of the call in lastOp,     *)
(* Respond hands the return value to the caller and the server is idle.    *)
(***************************************************************************)
NoForm == [fields |-> NoFields, skill_ratings |-> EmptyMap]

\* the record of a call: the action, the caller, its arguments (target: the
\* task id or user id argument), and what it returned
NoEnv ==
  [tz |-> 0, now |-> [utc |-> 0, local |-> 0], count |-> 0,
   startDate |-> {}, endDate |-> {}]

\* env: the time zone and clock an aggregation call ran under and its
\* arguments (count: weekCount or monthCount)
Call(op, caller, target, formData, failed, error, success, written, data) ==
  [op |-> op, caller |-> caller, target |-> target, formData |-> formData,
   failed |-> failed, error |-> error, success |-> success, written |-> written,
   data |-> data, env |-> NoEnv]

Idle == Call("idle", Anon, {}, NoForm, {}, "", FALSE, {}, << >>)

\* TaskSubmissionForm as useState initialises it for a session, on the page
\* it is rendered on (skills [], title '', description '', skillRatings new
\* Map(), error null as ""); event is the handler that ran last
FormState(page, session) ==
  [page |-> page, session |-> session, skills |-> {}, loaded |-> FALSE,
   title |-> "", description |-> "", skillRatings |-> EmptyMap, error |-> "",
   event |-> "mount"]

\* TaskHistoryTable as useState initialises it for a session: deleting null
\* (as 0), and no deleteTask call awaited (pending: the rows whose call has
\* not returned)
TableState(session) == [session |-> session, deleting |-> 0, pending |-> {}]

\* no updateTask call in progress
NoCalls == << >>

\* no component is mounted and no request is in progress
NoClient ==
  /\ form = FormState("none", Anon)
  /\ table = TableState(Anon)
  /\ calls = NoCalls

\* the skills table the state machine starts from: two active skills and a
\* deactivated one
InitialSkills ==
  [sid \in SkillIds |->
     CASE sid = "s1" -> [name |-> "Analysis", is_active |-> TRUE]
       [] sid = "s2" -> [name |-> "Planning", is_active |-> TRUE]
       [] OTHER -> [name |-> "QA", is_active |-> FALSE]]

Init ==
  /\ skills = InitialSkills
  /\ tasks = << >>
  /\ skill_ratings = {}
  /\ nextId = 1
  /\ lastOp = Idle
  /\ NoClient

\* the storage calls of a request that can fail: a request without a session
\* returns before it issues any
Failures(caller, scenarios) == IF caller \in Users THEN scenarios ELSE { {} }

\* a write action: the tables it leaves and the record of the call
Write(op, caller, target, formData, o) ==
  /\ tasks' = o.tasks
  /\ skill_ratings' = o.skill_ratings
  /\ nextId' = o.nextId
  /\ lastOp' = Call(op, caller, target, formData, o.failed, o.error, o.success,
                    o.written, << >>)

\* a read action: the record of the call
Read(op, caller, target, data) ==
  lastOp' = Call(op, caller, target, NoForm, {}, "", FALSE, {}, data)

SubmitTask ==
  /\ lastOp.op = "idle"
  /\ \E caller \in Callers, formData \in Forms :
    \E fails \in Failures(caller, SubmitFailures) :
      /\ nextId <= MaxTasks
      /\ Write("submitTask", caller, {}, formData, submitTask(caller, formData, fails))
      /\ UNCHANGED <<skills, client>>

UpdateTask ==
  /\ lastOp.op = "idle"
  /\ \E caller \in Callers, taskId \in TaskIds, formData \in Forms :
    \E fails \in Failures(caller, UpdateFailures) :
      /\ Write("updateTask", caller, {taskId}, formData,
               updateTask(caller, taskId, formData, fails))
      /\ UNCHANGED <<skills, client>>

DeleteTask ==
  /\ lastOp.op = "idle"
  /\ \E caller \in Callers, taskId \in TaskIds :
    \E fails \in Failures(caller, DeleteFailures) :
      /\ Write("deleteTask", caller, {taskId}, NoForm, deleteTask(caller, taskId, fails))
      /\ UNCHANGED <<skills, client>>

GetUserTasks ==
  /\ lastOp.op = "idle"
  /\ \E caller \in Callers, userId \in Users \cup {Undefined}, page \in Pages :
    \E fails \in Failures(caller, ReadFailures) :
      LET targetUserId == IF userId = Undefined THEN caller ELSE userId
      IN \E order \in DateOrders(TasksOfUser(AuthUid(caller), targetUserId)) :
           /\ Read("getUserTasks", caller, {userId},
                   getUserTasks(caller, userId, page.limit, page.offset, fails, order))
           /\ UNCHANGED <<skills, tasks, skill_ratings, nextId, client>>

GetTaskById ==
  /\ lastOp.op = "idle"
  /\ \E caller \in Callers, taskId \in TaskIds :
    \E fails \in Failures(caller, ReadFailures) :
      /\ Read("getTaskById", caller, {taskId}, getTaskById(caller, taskId, fails))
      /\ UNCHANGED <<skills, tasks, skill_ratings, nextId, client>>

\* an aggregation entry point: the record of the call
Aggregate(op, caller, env, failed, data) ==
  lastOp' = [Call(op, caller, {}, NoForm, failed, "", FALSE, {}, data) EXCEPT !.env = env]

GetOverallSkillAverages ==
  /\ lastOp.op = "idle"
  /\ \E caller \in Callers :
    \E fails \in Failures(caller, AggregationFailures) :
      \E order \in KeyOrders(SkillsWithName(RatingRows(AuthUid(caller), caller))) :
        /\ Aggregate("getOverallSkillAverages", caller, NoEnv, fails,
                     << getOverallSkillAverages(caller, fails, order) >>)
        /\ UNCHANGED <<skills, tasks, skill_ratings, nextId, client>>

GetWeeklySkillTrends ==
  /\ lastOp.op = "idle"
  /\ \E caller \in Callers, weekCount \in WeekCounts, tz \in TimeZones :
    \E now \in Clocks(tz), fails \in Failures(caller, AggregationFailures) :
      \E order \in KeyOrders(SkillsWithId(WeeklyData(caller, weekCount, now))) :
        /\ Aggregate("getWeeklySkillTrends", caller,
                     [NoEnv EXCEPT !.tz = tz, !.now = now, !.count = weekCount], fails,
                     getWeeklySkillTrends(caller, weekCount, now, tz, fails, order))
        /\ UNCHANGED <<skills, tasks, skill_ratings, nextId, client>>

GetMonthlySkillTrends ==
  /\ lastOp.op = "idle"
  /\ \E caller \in Callers, monthCount \in MonthCounts, tz \in TimeZones :
    \E now \in Clocks(tz), fails \in Failures(caller, AggregationFailures) :
      \E order \in KeyOrders(SkillsWithId(MonthlyData(caller, monthCount, now))) :
        /\ Aggregate("getMonthlySkillTrends", caller,
                     [NoEnv EXCEPT !.tz = tz, !.now = now, !.count = monthCount], fails,
                     getMonthlySkillTrends(caller, monthCount, now, tz, fails, order))
        /\ UNCHANGED <<skills, tasks, skill_ratings, nextId, client>>

GetPerformanceSummary ==
  /\ lastOp.op = "idle"
  /\ \E caller \in Callers, startDate \in DateFilters, endDate \in DateFilters :
    \E fails \in Failures(caller, SummaryFailures) :
      \E order \in KeyOrders(SkillsWithName(RatingRows(AuthUid(caller), caller))) :
        /\ Aggregate("getPerformanceSummary", caller,
                     [NoEnv EXCEPT !.startDate = startDate, !.endDate = endDate], fails,
                     << getPerformanceSummary(caller, startDate, endDate, fails, order) >>)
        /\ UNCHANGED <<skills, tasks, skill_ratings, nextId, client>>

Respond ==
  /\ lastOp.op # "idle"
  /\ lastOp' = Idle
  /\ UNCHANGED <<skills, tasks, skill_ratings, nextId, client>>

Next ==
  \/ SubmitTask
  \/ UpdateTask
  \/ DeleteTask
  \/ GetUserTasks
  \/ GetTaskById
  \/ GetOverallSkillAverages
  \/ GetWeeklySkillTrends
  \/ GetMonthlySkillTrends
  \/ GetPerformanceSummary
  \/ Respond

Spec == Init /\ [][Next]_vars

(***************************************************************************)
(* The aggregation entry points over a populated database.  They only      *)
(* read: the second specification starts from any of a family of stored    *)
(* states the write actions lead to over time (a catalogue of up to        *)
(* MaxSkills active skills, each task rated on every active skill) and     *)
(* runs the four entry points on it.                                       *)
(***************************************************************************)
\* how many skills of the seeded catalogue the databases activate at most
MaxSkills == 6

\* the seeded skills, in the order of the INSERT, and their ids
SeedSkills ==
  << "Analysis", "Planning", "Development", "QA", "English", "Task Comments",
     "Edge Cases Covered", "PR Review", "Code Quality", "Problem Solving",
     "Testing", "Debugging", "Time Management", "Initiative/Proactivity",
     "Mentoring Others" >>
SeedIds ==
  << "s1", "s2", "s3", "s4", "s5", "s6", "s7", "s8", "s9", "s10", "s11", "s12",
     "s13", "s14", "s15" >>

\* the skills table with the first k skills active
Catalogue(k) ==
  [sid \in {SeedIds[i] : i \in 1 .. MaxSkills} |->
     LET i == CHOOSE j \in 1 .. MaxSkills : SeedIds[j] = sid
     IN [name |-> SeedSkills[i], is_active |-> i <= k]]

\* the rating task i gives skill j: three ways to fill the rating maps
RatingPatterns == {"sum", "product", "same"}
RatingOf(pattern, i, j) ==
  IF pattern = "sum" THEN ((i + j) % MaxRating) + MinRating
  ELSE IF pattern = "product" THEN ((i * j) % MaxRating) + MinRating
  ELSE MaxRating - 2

\* the task dates of the databases: three tasks in three weeks of January
\* 2024, or one task on any day from 2023-12-31 to the day of the calls
ThreeWeeks == << 1, 7, 14 >>
BucketDates == (0 - 1) .. Today
\* a date more than six months before the calls (2023-06-15)
LongAgo == 0 - 200

\* u1's tasks on the given dates, each rated on the k active skills, and one
\* task of u2 rated MaxRating on each of them
Database(k, dates, pattern) ==
  LET n == Len(dates)
      Fields(i, d) ==
        [title |-> "a", task_date |-> d, delivered_on_time |-> i % 2 = 1,
         manager_found_issues |-> i % 2 = 0, manager_helped_analysis |-> TRUE]
  IN [skills |-> Catalogue(k),
      tasks |-> [i \in 1 .. n + 1 |->
                   IF i <= n THEN [user_id |-> "u1", fields |-> Fields(i, dates[i])]
                   ELSE [user_id |-> "u2", fields |-> Fields(i, dates[1])]],
      skill_ratings |->
        {[task_id |-> i, skill_id |-> SeedIds[j],
          rating |-> IF i <= n THEN RatingOf(pattern, i, j) ELSE MaxRating] :
           i \in 1 .. n + 1, j \in 1 .. k}]

\* one user's three tasks on 2024-01-02 (Tue), 2024-01-08 (Mon) and
\* 2024-01-15 (Mon), each rated on the seeded skill "Testing": 4, 5 and 3
TestingId == SeedIds[11]
TestingRatings == << 4, 5, 3 >>
TestingDatabase ==
  [skills |-> [sid \in {TestingId} |-> [name |-> SeedSkills[11], is_active |-> TRUE]],
   tasks |-> [i \in DOMAIN ThreeWeeks |->
                [user_id |-> "u1",
                 fields |-> [title |-> "a", task_date |-> ThreeWeeks[i],
                             delivered_on_time |-> TRUE,
                             manager_found_issues |-> FALSE,
                             manager_helped_analysis |-> FALSE]]],
   skill_ratings |->
     {[task_id |-> i, skill_id |-> TestingId, rating |-> TestingRatings[i]] :
        i \in DOMAIN ThreeWeeks}]

\* three tasks over a small catalogue, one task from before the trend
\* windows over a large one, one task on each of the dates
Databases ==
  {Database(k, ThreeWeeks, pattern) :
     k \in 0 .. Len(ThreeWeeks), pattern \in RatingPatterns}
    \cup {Database(k, << LongAgo >>, "sum") :
            k \in Len(ThreeWeeks) + 1 .. MaxSkills}
    \cup {Database(1, << d >>, "sum") : d \in BucketDates}
    \cup {TestingDatabase}

InitAggregation ==
  \E db \in Databases :
    /\ skills = db.skills
    /\ tasks = db.tasks
    /\ skill_ratings = db.skill_ratings
    /\ nextId = Len(db.tasks) + 1
    /\ lastOp = Idle
    /\ NoClient

NextAggregation ==
  \/ GetOverallSkillAverages
  \/ GetWeeklySkillTrends
  \/ GetMonthlySkillTrends
  \/ GetPerformanceSummary
  \/ Respond

SpecAggregation == InitAggregation /\ [][NextAggregation]_vars

(***************************************************************************)
(* Soft deactivation of a skill.  No server action writes the skills       *)
(* table; is_active is set to false by the database's administrator        *)
(* (DATABASE_SETUP.md: is_active BOOLEAN DEFAULT true), with the service    *)
(* role, which row-level security does not restrict.  The third            *)
(* specification adds this step to the aggregation entry points.           *)
(***************************************************************************)
Admin == "admin"

\* UPDATE skills SET is_active = false WHERE id = sid
DeactivateSkill ==
  /\ lastOp.op = "idle"
  /\ \E sid \in DOMAIN skills :
       /\ skills[sid].is_active
       /\ skills' = [skills EXCEPT ![sid].is_active = FALSE]
       /\ lastOp' = Call("deactivateSkill", Admin, {}, NoForm, {}, "", TRUE, {}, << sid >>)
  /\ UNCHANGED <<tasks, skill_ratings, nextId, client>>

NextDeactivation ==
  \/ DeactivateSkill
  \/ GetOverallSkillAverages
  \/ GetWeeklySkillTrends
  \/ GetMonthlySkillTrends
  \/ GetPerformanceSummary
  \/ Respond

SpecDeactivation == InitAggregation /\ [][NextDeactivation]_vars

(***************************************************************************)
(* app/actions/tasks.ts, updateTask call by call: the server runs requests  *)
(* concurrently, and each await of updateTask is a point where another      *)
(* request's storage call can come in between.  One action per storage      *)
(* step of a call; the reads before the first write are one step.           *)
(***************************************************************************)
\* the forms an updateTask of a stored task succeeds with when it runs alone
UpdateForms ==
  {f \in Forms :
     /\ AllSkillsRated(f.skill_ratings,
                       {sid \in SkillIds : InitialSkills[sid].is_active})
     /\ \A k \in DOMAIN f.skill_ratings :
          /\ k \in SkillIds
          /\ f.skill_ratings[k] >= MinRating
          /\ f.skill_ratings[k] <= MaxRating}

\* an updateTask(taskId, formData) call that has not run its first await
NewCall(caller, taskId, formData) ==
  [caller |-> caller, taskId |-> taskId, formData |-> formData, pc |-> "start",
   error |-> "", success |-> FALSE]

\* getCurrentUser, the ownership query, getAllSkills and the validation
CheckUpdate ==
  \E i \in DOMAIN calls :
    LET c == calls[i]
        user == getCurrentUser(c.caller)
        existingTask == selectOwner(AuthUid(c.caller), c.taskId, {})
        sk == getAllSkills({})
        error == IF ~ user.ok THEN "Not authenticated"
                 ELSE IF ~ existingTask.ok THEN "Task not found"
                 ELSE IF existingTask.user_id # user.id
                 THEN "Not authorized to update this task"
                 ELSE IF ~ AllSkillsRated(c.formData.skill_ratings, sk.data)
                 THEN "All skills must be rated"
                 ELSE ""
    IN /\ c.pc = "start"
       /\ calls' = [calls EXCEPT ![i].pc = IF error = "" THEN "checked" ELSE "done",
                                 ![i].error = error]
       /\ UNCHANGED <<skills, tasks, skill_ratings, nextId, lastOp, form, table>>

\* supabase.from('tasks').update({...}).eq('id', taskId)
UpdateFields ==
  \E i \in DOMAIN calls :
    LET c == calls[i]
    IN /\ c.pc = "checked"
       /\ tasks' = [t \in DOMAIN tasks |->
                      IF t = c.taskId /\ TasksPolicy(AuthUid(c.caller), tasks[t])
                      THEN [tasks[t] EXCEPT !.fields = c.formData.fields]
                      ELSE tasks[t]]
       /\ calls' = [calls EXCEPT ![i].pc = "updated"]
       /\ UNCHANGED <<skills, skill_ratings, nextId, lastOp, form, table>>

\* supabase.from('skill_ratings').delete().eq('task_id', taskId)
DeleteRatings ==
  \E i \in DOMAIN calls :
    LET c == calls[i]
    IN /\ c.pc = "updated"
       /\ skill_ratings' =
            RatingsAfterDelete(AuthUid(c.caller), tasks, skill_ratings, c.taskId)
       /\ calls' = [calls EXCEPT ![i].pc = "deleted"]
       /\ UNCHANGED <<skills, tasks, nextId, lastOp, form, table>>

\* supabase.from('skill_ratings').insert(ratingsToInsert) and the return
InsertRatings ==
  \E i \in DOMAIN calls :
    LET c == calls[i]
        rows == ratingsToInsert(c.taskId, c.formData.skill_ratings)
        insertOk == RatingsInsertAccepted(AuthUid(c.caller), skills, tasks,
                                          skill_ratings, rows)
    IN /\ c.pc = "deleted"
       /\ skill_ratings' = IF insertOk THEN skill_ratings \cup rows ELSE skill_ratings
       /\ calls' = [calls EXCEPT
                      ![i].pc = "done",
                      ![i].success = insertOk,
                      ![i].error = IF insertOk THEN ""
                                   ELSE "Failed to update skill ratings"]
       /\ UNCHANGED <<skills, tasks, nextId, lastOp, form, table>>

\* a stored task of u1 with its ratings, and two updateTask calls of u1 on it
InitUpdates ==
  \E stored \in UpdateForms, first \in UpdateForms, second \in UpdateForms :
    /\ skills = InitialSkills
    /\ tasks = << [user_id |-> "u1", fields |-> stored.fields] >>
    /\ skill_ratings = ratingsToInsert(1, stored.skill_ratings)
    /\ nextId = 2
    /\ lastOp = Idle
    /\ form = FormState("none", Anon)
    /\ table = TableState(Anon)
    /\ calls = << NewCall("u1", 1, first), NewCall("u1", 1, second) >>

NextUpdates ==
  \/ CheckUpdate
  \/ UpdateFields
  \/ DeleteRatings
  \/ InsertRatings

SpecUpdates == InitUpdates /\ [][NextUpdates]_vars

(***************************************************************************)
(* components/tasks/TaskSubmissionForm.tsx: the form a user fills in and     *)
(* submits.  Each handler of the component is one action; handleSubmit      *)
(* includes the submitTask call it awaits.                                   *)
(***************************************************************************)
\* what the user types into the title and description inputs, and the
\* buttons of a RatingInput the user clicks
Texts == {"", "a"}
ClickRatings == {MinRating, MaxRating}

\* the page is opened: the component is mounted with its initial state
MountForm ==
  /\ lastOp.op = "idle"
  /\ form.page # "form"
  /\ form' = FormState("form", form.session)
  /\ UNCHANGED <<skills, tasks, skill_ratings, nextId, lastOp, table, calls>>

\* useEffect(loadSkills, []): once after the mount
LoadSkills ==
  /\ lastOp.op = "idle"
  /\ form.page = "form"
  /\ ~ form.loaded
  /\ \E fails \in {{}, {"selectSkills"}} :
       LET fetchedSkills == getAllSkills(fails)
       IN form' = IF fetchedSkills.ok
                  THEN [form EXCEPT !.loaded = TRUE, !.skills = fetchedSkills.data,
                                     !.event = "loadSkills"]
                  ELSE [form EXCEPT !.loaded = TRUE, !.error = "Failed to load skills",
                                     !.event = "loadSkills"]
  /\ UNCHANGED <<skills, tasks, skill_ratings, nextId, lastOp, table, calls>>

\* onChange of the title input and of the description text area
SetTitle ==
  /\ lastOp.op = "idle"
  /\ form.page = "form"
  /\ \E text \in Texts : form' = [form EXCEPT !.title = text, !.event = "setTitle"]
  /\ UNCHANGED <<skills, tasks, skill_ratings, nextId, lastOp, table, calls>>

SetDescription ==
  /\ lastOp.op = "idle"
  /\ form.page = "form"
  /\ \E text \in Texts :
       form' = [form EXCEPT !.description = text, !.event = "setDescription"]
  /\ UNCHANGED <<skills, tasks, skill_ratings, nextId, lastOp, table, calls>>

\* handleRatingChange(skillId, rating): a click on a button of the
\* RatingInput of one of the loaded skills
HandleRatingChange ==
  /\ lastOp.op = "idle"
  /\ form.page = "form"
  /\ \E skillId \in form.skills, rating \in ClickRatings :
       form' = [form EXCEPT
                  !.skillRatings = (skillId :> rating) @@ form.skillRatings,
                  !.event = "handleRatingChange"]
  /\ UNCHANGED <<skills, tasks, skill_ratings, nextId, lastOp, table, calls>>

\* handleSubmit: the two validations, then submitTask(formData) and what the
\* component does with its result
HandleSubmit ==
  /\ lastOp.op = "idle"
  /\ form.page = "form"
  /\ IF DOMAIN form.skillRatings = {}
     THEN /\ form' = [form EXCEPT
                        !.error = "Please rate at least one skill before submitting",
                        !.event = "handleSubmit"]
          /\ UNCHANGED <<tasks, skill_ratings, nextId, lastOp>>
     ELSE IF form.title = "" \/ form.description = ""
     THEN /\ form' = [form EXCEPT !.error = "Title and description are required",
                                   !.event = "handleSubmit"]
          /\ UNCHANGED <<tasks, skill_ratings, nextId, lastOp>>
     ELSE \E fails \in Failures(form.session, SubmitFailures) :
            LET formData == [fields |-> [FieldsA EXCEPT !.title = form.title],
                             skill_ratings |-> form.skillRatings]
                result == submitTask(form.session, formData, fails)
            IN /\ nextId <= MaxTasks
               /\ Write("submitTask", form.session, {}, formData, result)
               /\ form' = IF result.error # ""
                           THEN [form EXCEPT !.error = result.error,
                                             !.event = "handleSubmit"]
                           ELSE [form EXCEPT !.error = "", !.page = "tasks",
                                             !.event = "handleSubmit"]
  /\ UNCHANGED <<skills, table, calls>>

\* the seeded database and the form just mounted in some session
InitForm ==
  /\ skills = InitialSkills
  /\ tasks = << >>
  /\ skill_ratings = {}
  /\ nextId = 1
  /\ lastOp = Idle
  /\ \E session \in Callers : form = FormState("form", session)
  /\ table = TableState(Anon)
  /\ calls = NoCalls

NextForm ==
  \/ MountForm
  \/ LoadSkills
  \/ SetTitle
  \/ SetDescription
  \/ HandleRatingChange
  \/ HandleSubmit
  \/ Respond

SpecForm == InitForm /\ [][NextForm]_vars

(***************************************************************************)
(* components/tasks/TaskHistoryTable.tsx: the rows of the user's tasks,     *)
(* each with a delete button.  handleDelete runs up to its await when the   *)
(* button is clicked and from the await on when its deleteTask call         *)
(* returns; other clicks and returns can come in between.                   *)
(***************************************************************************)
\* the rows of the table: the tasks of the session's user
Rows == {t \in DOMAIN tasks : tasks[t].user_id = table.session}

\* disabled={deleting === task.id}
DeleteDisabled(taskId) == table.deleting = taskId

\* a click on the delete button of a row with no call under way: confirm(),
\* setDeleting(taskId), and the deleteTask call is sent
ClickDelete ==
  /\ \E taskId \in Rows \ table.pending, confirmed \in BOOLEAN :
       /\ ~ DeleteDisabled(taskId)
       /\ table' = IF confirmed
                   THEN [table EXCEPT !.deleting = taskId,
                                      !.pending = table.pending \cup {taskId}]
                   ELSE table
  /\ UNCHANGED <<skills, tasks, skill_ratings, nextId, lastOp, form, calls>>

\* the deleteTask call of a row runs on the server and returns: the alert or
\* onTaskDeleted, then finally setDeleting(null)
DeleteReturns ==
  /\ lastOp.op = "idle"
  /\ \E taskId \in table.pending :
     \E fails \in Failures(table.session, DeleteFailures) :
       /\ Write("deleteTask", table.session, {taskId}, NoForm,
                deleteTask(table.session, taskId, fails))
       /\ table' = [table EXCEPT !.deleting = 0,
                                 !.pending = table.pending \ {taskId}]
  /\ UNCHANGED <<skills, form, calls>>

\* the table of a signed-in user over a database with stored tasks
InitTable ==
  \E db \in {Database(k, ThreeWeeks, "sum") : k \in 1 .. 2}, session \in Users :
    /\ skills = db.skills
    /\ tasks = db.tasks
    /\ skill_ratings = db.skill_ratings
    /\ nextId = Len(db.tasks) + 1
    /\ lastOp = Idle
    /\ form = FormState("none", Anon)
    /\ table = TableState(session)
    /\ calls = NoCalls

NextTable ==
  \/ ClickDelete
  \/ DeleteReturns
  \/ Respond

SpecTable == InitTable /\ [][NextTable]_vars

(***************************************************************************)
(* Properties                                                              *)
(***************************************************************************)
ActiveSkills == {sid \in DOMAIN skills : skills[sid].is_active}

RatedSkills(R, tid) == {r.skill_id : r \in RatingsOf(R, tid)}

\* the errors a write action returns before it validates the rating map
EarlyErrors ==
  { "Not authenticated", "Task not found", "Not authorized to update this task",
    "Not authorized to delete this task", "Failed to fetch skills" }

\* C1: every persisted task row has exactly one skill_ratings row for each
\* currently active skill and no other rating rows, in every state reachable
\* by submitTask, updateTask and deleteTask calls whose storage calls may fail.
C1_EveryTaskFullyRated ==
  \A t \in DOMAIN tasks :
    /\ RatedSkills(skill_ratings, t) = ActiveSkills
    /\ Cardinality(RatingsOf(skill_ratings, t)) = Cardinality(ActiveSkills)

\* C2: submitTask is atomic: after a submitTask call that returns an error, no
\* task row created by that call remains persisted.
C2_SubmitErrorLeavesNoTask ==
  (lastOp.op = "submitTask" /\ ~ lastOp.success)
    => lastOp.written \cap DOMAIN tasks = {}

\* C3: submitTask and updateTask that get as far as validating the rating map
\* return the validation error, and write nothing, for every rating map whose
\* key set is not exactly the set of active skill ids.
C3_KeySetValidated ==
  ( /\ lastOp.op \in {"submitTask", "updateTask"}
    /\ lastOp.error \notin EarlyErrors
    /\ DOMAIN lastOp.formData.skill_ratings # ActiveSkills )
    => (lastOp.error = "All skills must be rated" /\ lastOp.written = {})

\* C4: a submitTask call whose rating map omits at least one active skill
\* returns 'All skills must be rated' and creates no task row.
C4_OmittedSkillRejected ==
  ( /\ lastOp.op = "submitTask"
    /\ lastOp.caller \in Users
    /\ "selectSkills" \notin lastOp.failed
    /\ \E sid \in ActiveSkills : sid \notin DOMAIN lastOp.formData.skill_ratings )
    => (lastOp.error = "All skills must be rated" /\ lastOp.written = {})

\* C5: updateTask is atomic: after any updateTask call on an existing task
\* the task has either its old fields with its old rating set or the new
\* fields with the complete new rating set.
C5_UpdateAllOrNothing ==
  [][ \A t \in DOMAIN tasks :
        (lastOp'.op = "updateTask" /\ lastOp'.target = {t})
          => /\ t \in DOMAIN tasks'
             /\ \/ /\ tasks'[t] = tasks[t]
                   /\ RatingsOf(skill_ratings', t) = RatingsOf(skill_ratings, t)
                \/ /\ tasks'[t].fields = lastOp'.formData.fields
                   /\ RatingsOf(skill_ratings', t)
                        = ratingsToInsert(t, lastOp'.formData.skill_ratings) ]_vars

\* C6: updateTask and deleteTask called by an authenticated user who does not
\* own the target task return a 'Not authorized' error and leave the task row
\* and its rating rows unchanged.
C6_NonOwnerNotAuthorized ==
  [][ \A t \in DOMAIN tasks :
        ( /\ lastOp'.op \in {"updateTask", "deleteTask"}
          /\ lastOp'.target = {t}
          /\ lastOp'.caller \in Users
          /\ lastOp'.caller # tasks[t].user_id )
          => /\ lastOp'.error \in { "Not authorized to update this task",
                                    "Not authorized to delete this task" }
             /\ t \in DOMAIN tasks' /\ tasks'[t] = tasks[t]
             /\ RatingsOf(skill_ratings', t) = RatingsOf(skill_ratings, t) ]_vars

\* C7: every task returned by getUserTasks (for any userId argument) or
\* getTaskById (for any task id) is owned by the caller, with only that
\* task's ratings, whatever tasks other users have stored.
C7_ReadsReturnOwnDataOnly ==
  lastOp.op \in {"getUserTasks", "getTaskById"}
    => \A i \in DOMAIN lastOp.data :
         /\ lastOp.data[i].user_id = lastOp.caller
         /\ lastOp.data[i].id \in DOMAIN tasks
         /\ tasks[lastOp.data[i].id].user_id = lastOp.caller
         /\ {[task_id |-> lastOp.data[i].id, skill_id |-> r.skill_id, rating |-> r.rating] :
               r \in lastOp.data[i].skill_ratings}
              = RatingsOf(skill_ratings, lastOp.data[i].id)

\* C7 witness: a read returns a task while another user has a task stored.
C7_Witness ==
  /\ lastOp.op \in {"getUserTasks", "getTaskById"}
  /\ lastOp.data # << >>
  /\ lastOp.data[1].skill_ratings # {}
  /\ \E t \in DOMAIN tasks : tasks[t].user_id # lastOp.caller

\* C8: getTaskById on an existing task owned by another user, and
\* getUserTasks with another user's id, report an authorization error that
\* is distinguishable from 'task not found' (null) / an empty page ([]).
C8_DenialDistinguishable ==
  /\ ( /\ lastOp.op = "getTaskById"
       /\ lastOp.caller \in Users
       /\ \E t \in lastOp.target :
            t \in DOMAIN tasks /\ tasks[t].user_id # lastOp.caller )
       => (lastOp.data # << >> \/ lastOp.error # "")
  /\ ( /\ lastOp.op = "getUserTasks"
       /\ lastOp.caller \in Users
       /\ lastOp.target \cap (Users \ {lastOp.caller}) # {} )
       => (lastOp.data # << >> \/ lastOp.error # "")

C10_DeleteRemovesTaskAndRatingsOnly ==
  [][ \A t \in TaskIds :
        (lastOp'.op = "deleteTask" /\ lastOp'.target = {t} /\ lastOp'.success)
          => /\ t \in DOMAIN tasks
             /\ tasks[t].user_id = lastOp'.caller
             /\ t \notin DOMAIN tasks'
             /\ RatingsOf(skill_ratings', t) = {}
             /\ DOMAIN tasks' = DOMAIN tasks \ {t}
             /\ \A o \in DOMAIN tasks' : tasks'[o] = tasks[o]
             /\ skill_ratings' = skill_ratings \ RatingsOf(skill_ratings, t) ]_vars

\* C10 witness: a delete succeeded on a task that had ratings (none of the
\* other task's rows, which has ratings too, is gone).
C10_Witness ==
  /\ lastOp.op = "deleteTask" /\ lastOp.success
  /\ lastOp.target \cap DOMAIN tasks = {}
  /\ \E o \in DOMAIN tasks :
       tasks[o].user_id = lastOp.caller /\ RatingsOf(skill_ratings, o) # {}

\* the sum of the ratings of a rating map over the skills in S
RECURSIVE SumOfMap(_, _)
SumOfMap(ratingMap, S) ==
  IF S = {} THEN 0
  ELSE LET k == CHOOSE x \in S : TRUE
       IN ratingMap[k] + SumOfMap(ratingMap, S \ {k})

\* C11: round trip: right after a successful submitTask whose rating map has
\* a rating for each active skill (and no other key), getTaskById for the
\* created task by the same user returns that task, with exactly the
\* submitted (skill, rating) pairs and with average_rating equal to the sum
\* of the submitted ratings divided by their number.
C11_RoundTripAverage ==
  [][ (/\ lastOp'.op = "submitTask"
       /\ lastOp'.success
       /\ DOMAIN lastOp'.formData.skill_ratings = ActiveSkills)
      => \A t \in lastOp'.written : \A caller \in {lastOp'.caller} :
           LET submitted == lastOp'.formData.skill_ratings
               fetched == getTaskById(caller, t, {})'
           IN /\ Len(fetched) = 1
              /\ fetched[1].id = t
              /\ fetched[1].fields = lastOp'.formData.fields
              /\ {<<r.skill_id, r.rating>> : r \in fetched[1].skill_ratings}
                   = {<<k, submitted[k]>> : k \in DOMAIN submitted}
              /\ fetched[1].average_rating.num * Cardinality(DOMAIN submitted)
                   = SumOfMap(submitted, DOMAIN submitted) * fetched[1].average_rating.den ]_vars

\* C11 witness: a submitTask with a rating for each active skill succeeded
\* and the fetch of the created task by its owner returns a task.
C11_Witness ==
  /\ lastOp.op = "submitTask"
  /\ lastOp.success
  /\ DOMAIN lastOp.formData.skill_ratings = ActiveSkills
  /\ \E t \in lastOp.written : getTaskById(lastOp.caller, t, {}) # << >>

\* the seeded skill names in ascending order (a.localeCompare(b) < 0)
Alphabetical ==
  << "Analysis", "Code Quality", "Debugging", "Development",
     "Edge Cases Covered", "English", "Initiative/Proactivity",
     "Mentoring Others", "Planning", "PR Review", "Problem Solving", "QA",
     "Task Comments", "Testing", "Time Management" >>
NameRank(name) == CHOOSE i \in DOMAIN Alphabetical : Alphabetical[i] = name

\* C12: all_skills of getOverallSkillAverages is ordered by mean rating
\* descending, skills of equal mean by higher rating count first, skills of
\* equal mean and count by skill name ascending; so the result is the same
\* for every order the storage layer returns the rating rows in.
C12_SortOrderDeterministic ==
  (lastOp.op = "getOverallSkillAverages" /\ lastOp.caller \in Users)
  => LET all_skills == lastOp.data[1].all_skills
         rows == RatingRows(AuthUid(lastOp.caller), lastOp.caller)
     IN /\ \A i, j \in DOMAIN all_skills :
             i < j =>
               LET a == all_skills[i]
                   b == all_skills[j]
                   am == a.average_rating.num * b.average_rating.den
                   bm == b.average_rating.num * a.average_rating.den
               IN \/ am > bm
                  \/ am = bm /\ a.rating_count > b.rating_count
                  \/ /\ am = bm
                     /\ a.rating_count = b.rating_count
                     /\ NameRank(a.skill_name) < NameRank(b.skill_name)
        /\ \A order \in KeyOrders(SkillsWithName(rows)) :
             lastOp.data[1] = getOverallSkillAverages(lastOp.caller, lastOp.failed, order)

\* C13: in every result of getOverallSkillAverages, with n skills in
\* all_skills and m = min(5, n): strengths is the first m entries of
\* all_skills, growth_opportunities read backwards is the last m entries of
\* all_skills, and when n <= 5 both lists hold all n skills (nothing is
\* removed from either because it is in the other).
C13_TopAndBottomFive ==
  lastOp.op = "getOverallSkillAverages"
  => LET result == lastOp.data[1]
         all_skills == result.all_skills
         n == Len(all_skills)
         m == IF n < 5 THEN n ELSE 5
     IN /\ Len(result.strengths) = m
        /\ Len(result.growth_opportunities) = m
        /\ \A i \in 1 .. m :
             /\ result.strengths[i] = all_skills[i]
             /\ result.growth_opportunities[i] = all_skills[n + 1 - i]
        /\ n <= 5 =>
             /\ {result.strengths[i].skill_id : i \in 1 .. m}
                  = {all_skills[i].skill_id : i \in 1 .. n}
             /\ {result.growth_opportunities[i].skill_id : i \in 1 .. m}
                  = {all_skills[i].skill_id : i \in 1 .. n}

\* C13 witness: a result with more than five skills, whose two lists differ
\* in the skills they hold.
C13_Witness ==
  /\ lastOp.op = "getOverallSkillAverages"
  /\ Len(lastOp.data[1].all_skills) > 5
  /\ lastOp.data[1].strengths[1] # lastOp.data[1].growth_opportunities[5]

\* the skill averages a call of getOverallSkillAverages or
\* getPerformanceSummary returned, from all of its lists
ReturnedSkillAverages ==
  LET result == lastOp.data[1]
      Entries(list) == {list[i] : i \in DOMAIN list}
  IN IF lastOp.op = "getOverallSkillAverages"
     THEN Entries(result.all_skills) \cup Entries(result.strengths)
            \cup Entries(result.growth_opportunities)
     ELSE Entries(result.skill_averages) \cup Entries(result.strengths)
            \cup Entries(result.growth_opportunities)

\* C14: every entry of all_skills, strengths and growth_opportunities of
\* getOverallSkillAverages and of skill_averages (and the two other lists) of
\* getPerformanceSummary has rating_count >= 1 and names a skill that has a
\* rating row on one of the caller's tasks: a skill without any never appears.
C14_UnratedSkillsExcluded ==
  lastOp.op \in {"getOverallSkillAverages", "getPerformanceSummary"}
  => \A e \in ReturnedSkillAverages :
       /\ e.rating_count >= 1
       /\ \E r \in skill_ratings :
            /\ r.skill_id = e.skill_id
            /\ r.task_id \in DOMAIN tasks
            /\ tasks[r.task_id].user_id = lastOp.caller

\* C14 witness: a call returned skill averages while an active skill has no
\* rating row on any task of the caller (and has some on another user's).
C14_Witness ==
  /\ lastOp.op \in {"getOverallSkillAverages", "getPerformanceSummary"}
  /\ ReturnedSkillAverages # {}
  /\ \E sid \in ActiveSkills :
       /\ \A r \in skill_ratings :
            r.skill_id = sid => tasks[r.task_id].user_id # lastOp.caller
       /\ \E r \in skill_ratings : r.skill_id = sid

\* the rating rows of one skill on the tasks of a user
RatingsOfSkill(userId, skill_id) ==
  {r \in skill_ratings :
     /\ r.skill_id = skill_id
     /\ r.task_id \in DOMAIN tasks
     /\ tasks[r.task_id].user_id = userId}

\* C15: each SkillAverage of getOverallSkillAverages satisfies
\* 1 <= min_rating <= average_rating <= max_rating <= 5, which is
\* min * count <= sum <= max * count for the sum of the skill's ratings, and
\* its rating_count is the number of rating rows of that skill.
C15_AverageWithinMinMax ==
  lastOp.op = "getOverallSkillAverages"
  => \A i \in DOMAIN lastOp.data[1].all_skills :
       LET e == lastOp.data[1].all_skills[i]
           rs == RatingsOfSkill(lastOp.caller, e.skill_id)
       IN /\ 1 <= e.min_rating
          /\ e.min_rating * e.average_rating.den <= e.average_rating.num
          /\ e.average_rating.num <= e.max_rating * e.average_rating.den
          /\ e.max_rating <= 5
          /\ e.rating_count = Cardinality(rs)
          /\ e.min_rating * e.rating_count <= SumRatings(rs)
          /\ SumRatings(rs) <= e.max_rating * e.rating_count

\* C15 witness: a SkillAverage over three ratings whose mean lies strictly
\* between its minimum and its maximum.
C15_Witness ==
  /\ lastOp.op = "getOverallSkillAverages"
  /\ \E i \in DOMAIN lastOp.data[1].all_skills :
       LET e == lastOp.data[1].all_skills[i]
       IN /\ e.rating_count = 3
          /\ e.min_rating * e.average_rating.den < e.average_rating.num
          /\ e.average_rating.num < e.max_rating * e.average_rating.den

\* the rows the last call of a trend entry point fetched without an error,
\* and those of them the grouping takes (skill?.id && task?.task_date)
Fetched ==
  IF lastOp.caller \notin Users \/ lastOp.failed # {} THEN {}
  ELSE IF lastOp.op = "getWeeklySkillTrends"
  THEN WeeklyData(lastOp.caller, lastOp.env.count, lastOp.env.now)
  ELSE IF lastOp.op = "getMonthlySkillTrends"
  THEN MonthlyData(lastOp.caller, lastOp.env.count, lastOp.env.now)
  ELSE {}
Grouped == {r \in Fetched : r.skill.id # ""}

\* the returned trend entry of a skill with the given period exists
HasTrend(skill_id, period) ==
  \E i \in DOMAIN lastOp.data :
    lastOp.data[i].skill_id = skill_id /\ lastOp.data[i].period = period

\* C16: the week bucket key getWeeklySkillTrends assigns to an observation
\* dated d, whatever weekday d is, is the Monday on or before d: the
\* observation's skill has a trend entry whose period is a Monday, is not
\* after d and is at most 6 days before d.
C16_WeekKeyIsMondayOnOrBefore ==
  lastOp.op = "getWeeklySkillTrends"
  => \A r \in Grouped :
       \E key \in (r.task_date - 6) .. r.task_date :
         /\ DayOfWeek(key) = 1
         /\ HasTrend(r.skill.id, key)

\* C17: the month bucket key getMonthlySkillTrends assigns to an observation
\* dated d is day 1 of the year and month of d.
C17_MonthKeyIsFirstOfMonth ==
  lastOp.op = "getMonthlySkillTrends"
  => \A r \in Grouped :
       HasTrend(r.skill.id, DayNumber(YearOf(r.task_date), MonthOf(r.task_date), 1))

\* C18: the bucket keys depend on the task date alone, not on the UTC offset
\* of the local time zone: the key a call assigns to an observation is the key
\* the same derivation assigns to its date under every other offset.
C18_KeysIndependentOfTimeZone ==
  lastOp.op \in {"getWeeklySkillTrends", "getMonthlySkillTrends"}
  => \A r \in Grouped : \A tz \in TimeZones :
       HasTrend(r.skill.id,
                IF lastOp.op = "getWeeklySkillTrends"
                THEN WeekKey(r.task_date, tz) ELSE MonthKey(r.task_date, tz))

\* C19: week bucketing is idempotent: the week-bucket derivation of
\* getWeeklySkillTrends applied to a key it returned gives that key again, and
\* an observation dated a Monday gets that Monday as its key.
C19_WeekKeyIdempotent ==
  lastOp.op = "getWeeklySkillTrends"
  => /\ \A i \in DOMAIN lastOp.data :
          WeekKey(lastOp.data[i].period, lastOp.env.tz) = lastOp.data[i].period
     /\ \A r \in Grouped :
          DayOfWeek(r.task_date) = 1 => HasTrend(r.skill.id, r.task_date)

\* the sum of rating_count over the trend entries of one skill
RECURSIVE CountIn(_, _)
CountIn(trends, skill_id) ==
  IF trends = << >> THEN 0
  ELSE (IF Head(trends).skill_id = skill_id THEN Head(trends).rating_count ELSE 0)
         + CountIn(Tail(trends), skill_id)

\* the rating rows of one skill among the fetched rows (the rows of the
\* fetched tasks)
FetchedOfSkill(skill_id) ==
  {q \in skill_ratings :
     q.skill_id = skill_id /\ \E r \in Fetched : r.task_id = q.task_id}

\* C20: getWeeklySkillTrends and getMonthlySkillTrends partition the fetched
\* rating rows: no (skill, period) pair occurs twice in the output, and for
\* each skill the rating_count of its trend entries add up to the number of
\* fetched rating rows of that skill (each row is counted exactly once).
C20_TrendsPartitionRows ==
  (/\ lastOp.op \in {"getWeeklySkillTrends", "getMonthlySkillTrends"}
   /\ lastOp.caller \in Users
   /\ lastOp.failed = {})
  => /\ \A i, j \in DOMAIN lastOp.data :
          (/\ lastOp.data[i].skill_id = lastOp.data[j].skill_id
           /\ lastOp.data[i].period = lastOp.data[j].period) => i = j
     /\ \A sid \in DOMAIN skills :
          CountIn(lastOp.data, sid) = Cardinality(FetchedOfSkill(sid))

\* the last call is getWeeklySkillTrends(12) of the tasks' owner, without a
\* storage failure, over the three tasks rated on "Testing"
TestingTrendCall ==
  /\ skills = TestingDatabase.skills
  /\ tasks = TestingDatabase.tasks
  /\ skill_ratings = TestingDatabase.skill_ratings
  /\ lastOp.op = "getWeeklySkillTrends"
  /\ lastOp.caller = "u1"
  /\ lastOp.failed = {}
  /\ lastOp.env.count = DefaultWeekCount

\* a trend entry of "Testing"
TestingTrend(period, average, count) ==
  [skill_id |-> TestingId, skill_name |-> SeedSkills[11], period |-> period,
   average_rating |-> average, rating_count |-> count]

SummaryCall ==
  /\ lastOp.op = "getPerformanceSummary"
  /\ lastOp.caller \in Users
  /\ "selectTasks" \notin lastOp.failed
Summary == lastOp.data[1]

\* the caller's tasks whose task_date lies in the range of the last call
FilteredTasks ==
  {t \in DOMAIN tasks :
     /\ tasks[t].user_id = lastOp.caller
     /\ \A d \in lastOp.env.startDate : tasks[t].fields.task_date >= d
     /\ \A d \in lastOp.env.endDate : tasks[t].fields.task_date <= d}

\* the filtered tasks with the flag set
Flagged(flag) == {t \in FilteredTasks : tasks[t].fields[flag]}

\* rate = 100 * count / total, within [0, 100]
IsRate(rate, count, total) ==
  /\ rate.num * total = 100 * count * rate.den
  /\ 0 <= rate.num
  /\ rate.num <= 100 * rate.den

\* C22: getPerformanceSummary over an empty filtered task set returns
\* total_tasks = 0, overall_average = 0, the three rates = 0 and empty
\* skill_averages, strengths and growth_opportunities; over a non-empty set
\* each rate is 100 * (tasks with the flag true) / total_tasks and lies in
\* [0, 100].
C22_SummaryCountsAndRates ==
  SummaryCall
  => IF FilteredTasks = {}
     THEN /\ Summary.total_tasks = 0
          /\ Summary.overall_average = [num |-> 0, den |-> 1]
          /\ Summary.on_time_delivery_rate = [num |-> 0, den |-> 1]
          /\ Summary.manager_issues_rate = [num |-> 0, den |-> 1]
          /\ Summary.manager_helped_rate = [num |-> 0, den |-> 1]
          /\ Summary.skill_averages = << >>
          /\ Summary.strengths = << >>
          /\ Summary.growth_opportunities = << >>
     ELSE LET total == Cardinality(FilteredTasks)
          IN /\ Summary.total_tasks = total
             /\ IsRate(Summary.on_time_delivery_rate,
                       Cardinality(Flagged("delivered_on_time")), total)
             /\ IsRate(Summary.manager_issues_rate,
                       Cardinality(Flagged("manager_found_issues")), total)
             /\ IsRate(Summary.manager_helped_rate,
                       Cardinality(Flagged("manager_helped_analysis")), total)

\* a summary of two tasks, one of them delivered on time
C22_Witness ==
  /\ SummaryCall
  /\ Cardinality(FilteredTasks) = 2
  /\ Cardinality(Flagged("delivered_on_time")) = 1
  /\ Summary.on_time_delivery_rate = [num |-> 50, den |-> 1]

\* the sum of the ratings and the number of the ratings behind a list of
\* skill averages
RawSum(s) ==
  LET total[i \in 0 .. Len(s)] ==
        IF i = 0 THEN 0
        ELSE total[i - 1]
               + (s[i].average_rating.num * s[i].rating_count) \div s[i].average_rating.den
  IN total[Len(s)]
RawCount(s) ==
  LET total[i \in 0 .. Len(s)] ==
        IF i = 0 THEN 0 ELSE total[i - 1] + s[i].rating_count
  IN total[Len(s)]

\* C23: overall_average returned by getPerformanceSummary is the sum of
\* average_rating over the skills of skill_averages divided by the number of
\* these skills (the mean of the per-skill means); it is 0 when there are
\* none.
C23_OverallIsMeanOfMeans ==
  SummaryCall
  => LET s == Summary.skill_averages
         n == Len(s)
         total[i \in 0 .. n] ==
           IF i = 0 THEN [num |-> 0, den |-> 1]
           ELSE FracAdd(total[i - 1], s[i].average_rating)
     IN IF n = 0 THEN Summary.overall_average = [num |-> 0, den |-> 1]
        ELSE Summary.overall_average.num * total[n].den * n
               = total[n].num * Summary.overall_average.den

\* a summary over skills with unequal rating counts, whose mean of means is
\* not the mean of the raw ratings
C23_Witness ==
  /\ SummaryCall
  /\ \E i, j \in DOMAIN Summary.skill_averages :
       Summary.skill_averages[i].rating_count # Summary.skill_averages[j].rating_count
  /\ Summary.overall_average.num * RawCount(Summary.skill_averages)
       # RawSum(Summary.skill_averages) * Summary.overall_average.den

\* the rating rows of a skill on the filtered tasks
FilteredRatings(skill_id) ==
  {q \in skill_ratings : q.skill_id = skill_id /\ q.task_id \in FilteredTasks}

\* C24: when getPerformanceSummary is called with a start and/or end date,
\* skill_averages, strengths and growth_opportunities are computed only from
\* ratings of the filtered tasks, the set total_tasks and the rates come from:
\* every entry of the three lists counts and averages the ratings its skill
\* has on the filtered tasks.
C24_AveragesFromFilteredTasks ==
  SummaryCall
  => \A list \in {Summary.skill_averages, Summary.strengths,
                   Summary.growth_opportunities} :
       \A i \in DOMAIN list :
         LET rs == FilteredRatings(list[i].skill_id)
         IN /\ list[i].rating_count = Cardinality(rs)
            /\ list[i].average_rating.num * Cardinality(rs)
                 = SumRatings(rs) * list[i].average_rating.den

\* what the three aggregation entry points return to each user in the
\* current state when no storage call fails (one result per key order of the
\* Map; the trends over the default windows, called in UTC)
OverallAggregates ==
  [c \in Users |->
     {getOverallSkillAverages(c, {}, order) :
        order \in KeyOrders(SkillsWithName(RatingRows(AuthUid(c), c)))}]
WeeklyAggregates ==
  [c \in Users |->
     LET now == [utc |-> Today, local |-> Today]
     IN {getWeeklySkillTrends(c, DefaultWeekCount, now, 0, {}, order) :
           order \in KeyOrders(SkillsWithId(WeeklyData(c, DefaultWeekCount, now)))}]
MonthlyAggregates ==
  [c \in Users |->
     LET now == [utc |-> Today, local |-> Today]
     IN {getMonthlySkillTrends(c, DefaultMonthCount, now, 0, {}, order) :
           order \in KeyOrders(SkillsWithId(MonthlyData(c, DefaultMonthCount, now)))}]

\* C25: deactivating a skill leaves the aggregates as they were: what
\* getOverallSkillAverages, getWeeklySkillTrends and getMonthlySkillTrends
\* return after the deactivation is what they returned before it, ratings
\* stored against the deactivated skill included.
C25_DeactivationKeepsAggregates ==
  [][lastOp'.op = "deactivateSkill"
     => /\ OverallAggregates' = OverallAggregates
        /\ WeeklyAggregates' = WeeklyAggregates
        /\ MonthlyAggregates' = MonthlyAggregates]_vars

\* C26: write operations propagate storage failures: when a storage call
\* made by submitTask, updateTask or deleteTask fails (the task insert,
\* update or delete, the delete of the old ratings in updateTask, or the
\* rating insert), the operation returns an error and not { success: true }.
C26_StorageFailurePropagates ==
  (lastOp.op \in {"submitTask", "updateTask", "deleteTask"} /\ lastOp.failed # {})
    => (~ lastOp.success /\ lastOp.error # "")

\* both updateTask calls have returned
BothReturned == calls # << >> /\ \A i \in DOMAIN calls : calls[i].pc = "done"

\* the task's fields and its complete rating set are those of call i
StateOfCall(i) ==
  /\ tasks[calls[i].taskId].fields = calls[i].formData.fields
  /\ RatingsOf(skill_ratings, calls[i].taskId)
       = ratingsToInsert(calls[i].taskId, calls[i].formData.skill_ratings)

\* the task holds some of call i's data: its fields or one of its rating rows
HoldsDataOf(i) ==
  \/ tasks[calls[i].taskId].fields = calls[i].formData.fields
  \/ RatingsOf(skill_ratings, calls[i].taskId)
       \cap ratingsToInsert(calls[i].taskId, calls[i].formData.skill_ratings) # {}

\* C28: two updateTask calls by the owner on the same task, their storage
\* steps interleaved in any order, end in a state where the task's fields and
\* its complete rating set both come from the same one of the two calls, and
\* a call that returned { success: true } is not followed by a final state
\* holding none of its data.
C28_InterleavedUpdatesConsistent ==
  BothReturned
  => /\ \E i \in DOMAIN calls : StateOfCall(i)
     /\ \A i \in DOMAIN calls : calls[i].success => HoldsDataOf(i)

\* C29: an updateTask or deleteTask call that returns 'Task not found', or
\* an updateTask call that returns 'All skills must be rated', has performed
\* no write: the tasks and skill_ratings tables are the same before and after
\* the call.
C29_RejectedCallWritesNothing ==
  [][(\/ /\ lastOp'.op \in {"updateTask", "deleteTask"}
         /\ lastOp'.error = "Task not found"
      \/ /\ lastOp'.op = "updateTask"
         /\ lastOp'.error = "All skills must be rated")
     => (tasks' = tasks /\ skill_ratings' = skill_ratings)]_vars

\* an updateTask of a stored, rated task by its owner was rejected by the
\* validation
C29_Witness ==
  /\ lastOp.op = "updateTask"
  /\ lastOp.error = "All skills must be rated"
  /\ \A t \in lastOp.target :
       /\ t \in DOMAIN tasks
       /\ tasks[t].user_id = lastOp.caller
       /\ RatingsOf(skill_ratings, t) # {}

\* C27: the task submission form calls submitTask only when every loaded
\* skill has a rating: a handleSubmit with fewer rated skills than loaded
\* skills sets an error and does not call submitTask.
C27_FormSubmitsOnlyFullyRated ==
  [][(/\ lastOp.op = "idle"
      /\ form'.event = "handleSubmit"
      /\ Cardinality(DOMAIN form.skillRatings) < Cardinality(form.skills))
     => (form'.error # "" /\ lastOp'.op # "submitTask")]_vars

\* C30: in TaskHistoryTable a task's delete button is disabled for as long as
\* that task's deleteTask call is in flight, whatever clicks on other rows and
\* completions of their calls come in between; and once no delete call is in
\* flight the deleting flag is null.
C30_DeleteButtonDisabledWhileInFlight ==
  /\ \A taskId \in table.pending : DeleteDisabled(taskId)
  /\ table.pending = {} => table.deleting = 0
====
